---- MODULE Spec2Model ----
(***************************************************************************)
(* Snapshot retention job: lambda_handler.py (the current handler) and     *)
(* lambda_hander_old.py (the legacy handler).                              *)
(*                                                                         *)
(* One behaviour is one invocation of one of the two handlers.  The cloud  *)
(* services (EC2, SNS, CloudWatch) are the environment: every call to one  *)
(* of them is answered nondeterministically, with success, with a          *)
(* botocore ClientError, or with any other exception.  Every call made is  *)
(* appended to the history variable calls.                                 *)
(*                                                                         *)
(* Timestamps are whole days, so timedelta.days is the difference of two   *)
(* day numbers.  A snapshot is a record whose Tags field may be missing,   *)
(* as in the describe_snapshots response.                                  *)
(***************************************************************************)
EXTENDS Integers, Sequences, FiniteSets, TLC

(* ---------------------------------------------------------------- bounds *)

\* Longest snapshot list the account returns.
MaxSnapshots == 2

\* Largest snapshot age in days; retention and warning days stay below it.
MaxDays == 2

\* Longest snapshot list of the batching specification SpecBatch.
MaxBatchSnapshots == 5

VARIABLES
    impl,        \* "new": lambda_handler.py, "old": lambda_hander_old.py
    cfg,         \* the module-level constants read from the environment
    pc,          \* position of the handler; at the end "done" (a result
                 \* was returned) or "raised" (an exception left the handler)
    snapshots,   \* the list returned by the snapshot listing
    i,           \* start index of the current batch (the range variable)
    batch,       \* the current slice snapshots[i:i+BATCH_SIZE]
    j,           \* snapshots of the current batch (old: of the list) done
    calls,       \* history: every collaborator call made, in order
    processed,   \* history: SnapshotId of every snapshot processed
    responses,   \* history: the answers given to each process_snapshot call
    chunks,      \* history: the batch sizes logged
    error,       \* the exception in flight: [kind, text]
    result       \* what the invocation gave back to its caller

vars == <<impl, cfg, pc, snapshots, i, batch, j, calls, processed, responses,
          chunks, error, result>>

(* ------------------------------------------------------- the environment *)

\* How a service call ends: normally, with ClientError, with another error.
Outcomes == {"ok", "ClientError", "Exception"}

\* describe_images: the list of images found, or an error.
ImageResponses ==
    {[out |-> "ok", Images |-> <<>>], [out |-> "ok", Images |-> <<"ami-1">>],
     [out |-> "ClientError", Images |-> <<>>],
     [out |-> "Exception", Images |-> <<>>]}

\* The answers one process_snapshot call can ask for.
DefaultResponse ==
    [warn |-> "ok", lookup |-> [out |-> "ok", Images |-> <<>>],
     delete |-> "ok", notify |-> "ok", metric |-> "ok"]

\* The answers of the services a step really asks (the others stay default).
Asked(S, needed, default) == IF needed THEN S ELSE {default}

\* current_date, a day number.
Today == MaxDays

StartTimes == 0 .. (MaxDays + 1)

TagLists == {<<[Key |-> "Name"], [Key |-> "ExemptFromDeletion"]>>}

\* Snapshots without the Tags field (the legacy handler reads no tags).
UntaggedShapes == {[StartTime |-> t] : t \in StartTimes}

SnapshotShapes ==
    UntaggedShapes
    \cup {[StartTime |-> t, Tags |-> g] : t \in StartTimes, g \in TagLists}

WithId(s, k) ==
    IF "Tags" \in DOMAIN s
    THEN [SnapshotId |-> k, StartTime |-> s.StartTime, Tags |-> s.Tags]
    ELSE [SnapshotId |-> k, StartTime |-> s.StartTime]

\* Every snapshot list of at most max snapshots of the given shapes.
Accounts(shapes, max) ==
    UNION {{[k \in 1 .. n |-> WithId(f[k], k)] : f \in [1 .. n -> shapes]} :
           n \in 0 .. max}

(* ------------------------------------------------------- configurations *)

TopicArns == {"", "arn:aws:sns:topic"}
RetentionDays == -1 .. (MaxDays - 1)
WarningDays == -1 .. (MaxDays - 1)
BatchSizes == -1 .. MaxSnapshots

Configs ==
    [SNS_TOPIC_ARN : TopicArns, SNAPSHOT_RETENTION_DAYS : RetentionDays,
     WARNING_DAYS : WarningDays, DRY_RUN : BOOLEAN, BATCH_SIZE : BatchSizes]

\* The legacy module reads two variables only.
OldConfigs ==
    [SNS_TOPIC_ARN : {"arn:aws:sns:topic"},
     SNAPSHOT_RETENTION_DAYS : RetentionDays]

(* ------------------------------------------- calls and their exceptions *)

\* One collaborator call: the operation, the snapshot id it names (0: none),
\* the message or metric text, the number in it, how it ended, and the
\* snapshot being processed when it was made (0: none).
Call(op, sid, text, n, out, during) ==
    [op |-> op, sid |-> sid, text |-> text, n |-> n, out |-> out,
     during |-> during]

\* The effect of a piece of code: the calls made, the exception it raised.
NoEffect == [calls |-> <<>>, raised |-> "none"]

\* A call raises what the service answered.
CallResult(c) ==
    [calls |-> <<c>>, raised |-> IF c.out = "ok" THEN "none" ELSE c.out]

\* a; b
Then(a, b) ==
    IF a.raised # "none" THEN a
    ELSE [calls |-> a.calls \o b.calls, raised |-> b.raised]

\* try: a  except kinds: handler
Catch(a, kinds, handler) ==
    IF a.raised \in kinds
    THEN [calls |-> a.calls \o handler.calls, raised |-> handler.raised]
    ELSE a

(* ------------------------------------------------- lambda_handler.py *)

validate_env_vars(c) ==
    IF c.SNS_TOPIC_ARN = "" \/ c.SNAPSHOT_RETENTION_DAYS = 0
    THEN [kind |-> "ValueError",
          text |-> "Missing required environment variables"]
    ELSE IF c.SNAPSHOT_RETENTION_DAYS <= 0 \/ c.WARNING_DAYS < 0
    THEN [kind |-> "ValueError", text |-> "Invalid retention or warning days"]
    ELSE [kind |-> "none", text |-> ""]

send_sns_message(sid, text, n, during, out) ==
    Catch(CallResult(Call("publish", sid, text, n, out, during)),
          {"ClientError"}, NoEffect)

increment_metric(metric_name, during, out) ==
    Catch(CallResult(Call("put_metric_data", 0, metric_name, 1, out, during)),
          {"ClientError"}, NoEffect)

SnapshotTags(snapshot) ==
    IF "Tags" \in DOMAIN snapshot THEN snapshot.Tags ELSE <<>>

\* Mutant: only the first tag is looked at.
IsExemptFirstTag(snapshot) ==
    /\ SnapshotTags(snapshot) # <<>>
    /\ SnapshotTags(snapshot)[1].Key = "ExemptFromDeletion"

IsExempt(snapshot) ==
    /\ SnapshotTags(snapshot) # <<>>
    /\ \E t \in DOMAIN SnapshotTags(snapshot) :
          SnapshotTags(snapshot)[t].Key = "ExemptFromDeletion"

snapshot_age(snapshot, current_date) == current_date - snapshot.StartTime

\* Mutant: >= for >.
AtOrOverRetention(age, c) == age >= c.SNAPSHOT_RETENTION_DAYS

OverRetention(age, c) == age > c.SNAPSHOT_RETENTION_DAYS

\* Mutant: < for <=.
InWarningWindowStrict(days_until_deletion, c) ==
    days_until_deletion < c.WARNING_DAYS

InWarningWindow(days_until_deletion, c) ==
    days_until_deletion <= c.WARNING_DAYS

\* Mutant: the deletion check also runs one day over retention.
DeletionDueAtOne(days_until_deletion) == days_until_deletion <= 1

DeletionDue(days_until_deletion) == days_until_deletion <= 0

WarningMessage(snapshot, days_until_deletion, out) ==
    IF days_until_deletion > 0
    THEN send_sns_message(snapshot.SnapshotId, "will be deleted in N days.",
                          days_until_deletion, snapshot.SnapshotId, out)
    ELSE send_sns_message(snapshot.SnapshotId, "will be deleted today.", 0,
                          snapshot.SnapshotId, out)

NotAmis(amis) == amis = <<>>

DeletionCheck(snapshot, c, env) ==
    LET id == snapshot.SnapshotId
        lookup == CallResult(Call("describe_images", id,
                                  "block-device-mapping.snapshot-id",
                                  Len(env.lookup.Images), env.lookup.out, id))
        delete == IF ~c.DRY_RUN
                  THEN CallResult(Call("delete_snapshot", id, "", 0,
                                       env.delete, id))
                  ELSE NoEffect
        report == send_sns_message(id,
                      IF c.DRY_RUN
                      THEN "[DRY RUN] Would have deleted snapshot"
                      ELSE "Deleted snapshot", 0, id, env.notify)
        body == IF NotAmis(env.lookup.Images)
                THEN Then(delete,
                          Then(report,
                               increment_metric("SnapshotsDeleted", id,
                                                env.metric)))
                ELSE send_sns_message(id,
                         "is in use by AMI(s) and will not be deleted.", 0,
                         id, env.notify)
    IN  Catch(Then(lookup, body), {"ClientError"},
              increment_metric("SnapshotProcessingErrors", id, env.metric))

\* Does process_snapshot reach its warning, its deletion check?
ReachesWarning(snapshot, current_date, c) ==
    /\ ~IsExempt(snapshot)
    /\ OverRetention(snapshot_age(snapshot, current_date), c)
    /\ InWarningWindow(snapshot_age(snapshot, current_date)
                       - c.SNAPSHOT_RETENTION_DAYS, c)

ReachesDeletionCheck(snapshot, current_date, c) ==
    /\ ~IsExempt(snapshot)
    /\ OverRetention(snapshot_age(snapshot, current_date), c)
    /\ DeletionDue(snapshot_age(snapshot, current_date)
                   - c.SNAPSHOT_RETENTION_DAYS)

process_snapshot(snapshot, current_date, c, env) ==
    LET days_until_deletion ==
            snapshot_age(snapshot, current_date) - c.SNAPSHOT_RETENTION_DAYS
    IN  Then(IF ReachesWarning(snapshot, current_date, c)
             THEN WarningMessage(snapshot, days_until_deletion, env.warn)
             ELSE NoEffect,
             IF ReachesDeletionCheck(snapshot, current_date, c)
             THEN DeletionCheck(snapshot, c, env)
             ELSE NoEffect)

\* The answers process_snapshot can get for this snapshot.
Responses(snapshot, current_date, c) ==
    LET deletes == ReachesDeletionCheck(snapshot, current_date, c)
    IN  {[warn |-> w, lookup |-> l, delete |-> d, notify |-> p, metric |-> m] :
            w \in Asked(Outcomes, ReachesWarning(snapshot, current_date, c),
                        "ok"),
            l \in Asked(ImageResponses, deletes, DefaultResponse.lookup),
            d \in Asked(Outcomes, deletes, "ok"),
            p \in Asked(Outcomes, deletes, "ok"),
            m \in Asked(Outcomes, deletes, "ok")}

\* i in range(0, stop, step)
InRange(k, stop, step) == IF step > 0 THEN k < stop ELSE k > stop

Min(a, b) == IF a <= b THEN a ELSE b

\* Mutant: the slice stops one snapshot early.
BatchSliceShort(list, k, size) ==
    SubSeq(list, k + 1, Min(k + size, Len(list)) - 1)

\* snapshots[i:i+BATCH_SIZE], for 0 <= i < len(snapshots), BATCH_SIZE > 0
BatchSlice(list, k, size) == SubSeq(list, k + 1, Min(k + size, Len(list)))

NoResult == [statusCode |-> 0, body |-> <<>>]
NoError == [kind |-> "none", text |-> ""]

\* An exception leaves the try block of lambda_handler.
Raise(kind, text) ==
    /\ pc' = "except"
    /\ error' = [kind |-> kind, text |-> text]

Return(status, body) ==
    /\ pc' = "done"
    /\ result' = [statusCode |-> status, body |-> body]

\* The exception leaves the handler: the caller gets no result.
Propagate(kind) ==
    /\ pc' = "raised"
    /\ error' = [kind |-> kind, text |-> "unhandled"]
    /\ result' = NoResult

Init ==
    /\ impl \in {"new", "old"}
    /\ cfg \in IF impl = "new" THEN Configs ELSE OldConfigs
    /\ pc = "start"
    /\ snapshots = <<>>
    /\ i = 0
    /\ batch = <<>>
    /\ j = 0
    /\ calls = <<>>
    /\ processed = <<>>
    /\ responses = <<>>
    /\ chunks = <<>>
    /\ error = NoError
    /\ result = NoResult

\* validate_env_vars(); current_date = now
Validate ==
    /\ impl = "new" /\ pc = "start"
    /\ IF validate_env_vars(cfg).kind = "none"
       THEN pc' = "list" /\ error' = error
       ELSE Raise("ValueError", validate_env_vars(cfg).text)
    /\ UNCHANGED <<impl, cfg, snapshots, i, batch, j, calls, processed,
                   responses, chunks, result>>

\* snapshots = get_all_snapshots()
ListSnapshots(accounts) ==
    /\ impl = "new" /\ pc = "list"
    /\ \E out \in Outcomes :
          /\ calls' = Append(calls,
                             Call("describe_snapshots", 0, "self", 0, out, 0))
          /\ IF out = "ok"
             THEN /\ snapshots' \in accounts
                  /\ pc' = "range"
                  /\ error' = error
             ELSE /\ snapshots' = snapshots
                  /\ Raise(out, "describe_snapshots")
    /\ UNCHANGED <<impl, cfg, i, batch, j, processed, responses, chunks,
                   result>>

\* range(0, len(snapshots), BATCH_SIZE)
BatchRange ==
    /\ impl = "new" /\ pc = "range"
    /\ IF cfg.BATCH_SIZE = 0
       THEN Raise("ValueError", "range() arg 3 must not be zero") /\ i' = i
       ELSE pc' = "loop" /\ i' = 0 /\ error' = error
    /\ UNCHANGED <<impl, cfg, snapshots, batch, j, calls, processed,
                   responses, chunks, result>>

\* for i in range(...): batch = snapshots[i:i+BATCH_SIZE]
NextBatch ==
    /\ impl = "new" /\ pc = "loop"
    /\ InRange(i, Len(snapshots), cfg.BATCH_SIZE)
    /\ batch' = BatchSlice(snapshots, i, cfg.BATCH_SIZE)
    /\ j' = 0
    /\ pc' = "batch"
    /\ UNCHANGED <<impl, cfg, snapshots, i, calls, processed, responses,
                   chunks, error, result>>

\* for snapshot in batch: process_snapshot(snapshot, current_date)
ProcessSnapshot ==
    /\ impl = "new" /\ pc = "batch"
    /\ j < Len(batch)
    /\ \E env \in Responses(batch[j + 1], Today, cfg) :
          LET r == process_snapshot(batch[j + 1], Today, cfg, env)
          IN  /\ calls' = calls \o r.calls
              /\ processed' = Append(processed, batch[j + 1].SnapshotId)
              /\ responses' = Append(responses, env)
              /\ IF r.raised = "none"
                 THEN pc' = pc /\ error' = error /\ j' = j + 1
                 ELSE Raise(r.raised, "process_snapshot") /\ j' = j
    /\ UNCHANGED <<impl, cfg, snapshots, i, batch, chunks, result>>

\* logger.info("Processed batch of {len(batch)} snapshots"); next i
EndBatch ==
    /\ impl = "new" /\ pc = "batch"
    /\ j = Len(batch)
    /\ chunks' = Append(chunks, Len(batch))
    /\ i' = i + cfg.BATCH_SIZE
    /\ pc' = "loop"
    /\ UNCHANGED <<impl, cfg, snapshots, batch, j, calls, processed,
                   responses, error, result>>

\* increment_metric('SnapshotsProcessed'); return 200
Finish ==
    /\ impl = "new" /\ pc = "loop"
    /\ ~InRange(i, Len(snapshots), cfg.BATCH_SIZE)
    /\ \E out \in Outcomes :
          LET r == increment_metric("SnapshotsProcessed", 0, out)
          IN  /\ calls' = calls \o r.calls
              /\ IF r.raised = "none"
                 THEN /\ Return(200, <<"Snapshot cleanup completed successfully!">>)
                      /\ error' = error
                 ELSE /\ Raise(r.raised, "increment_metric")
                      /\ result' = result
    /\ UNCHANGED <<impl, cfg, snapshots, i, batch, j, processed, responses,
                   chunks>>

\* except ValueError as ve: return 400
ExceptValueError ==
    /\ impl = "new" /\ pc = "except"
    /\ error.kind = "ValueError"
    /\ Return(400, <<"Validation error: ", error.text>>)
    /\ UNCHANGED <<impl, cfg, snapshots, i, batch, j, calls, processed,
                   responses, chunks, error>>

\* The metric increment of a top-level handler, then its return.
HandlerReturn(metric_name, body) ==
    \E out \in Outcomes :
        LET r == increment_metric(metric_name, 0, out)
        IN  /\ calls' = calls \o r.calls
            /\ IF r.raised = "none"
               THEN Return(500, body) /\ error' = error
               ELSE Propagate(r.raised)

\* except ClientError as ce: increment_metric('AWSAPIErrors'); return 500
ExceptClientError ==
    /\ impl = "new" /\ pc = "except"
    /\ error.kind = "ClientError"
    /\ HandlerReturn("AWSAPIErrors",
                     <<"An error occurred during AWS API call">>)
    /\ UNCHANGED <<impl, cfg, snapshots, i, batch, j, processed, responses,
                   chunks>>

\* except Exception as e: increment_metric('UnexpectedErrors'); return 500
ExceptException ==
    /\ impl = "new" /\ pc = "except"
    /\ error.kind = "Exception"
    /\ HandlerReturn("UnexpectedErrors", <<"An unexpected error occurred">>)
    /\ UNCHANGED <<impl, cfg, snapshots, i, batch, j, processed, responses,
                   chunks>>

NextNew(accounts) ==
    \/ Validate
    \/ ListSnapshots(accounts)
    \/ BatchRange
    \/ NextBatch
    \/ ProcessSnapshot
    \/ EndBatch
    \/ Finish
    \/ ExceptValueError
    \/ ExceptClientError
    \/ ExceptException

(* --------------------------------------------- lambda_hander_old.py *)

OldEnough(age, c) == age >= c.SNAPSHOT_RETENTION_DAYS

\* Mutant: the image list is not looked at.
OldNotAmisAlways(amis) == TRUE

OldNotAmis(amis) == amis = <<>>

\* The body of the legacy handler's loop, for one snapshot.
legacy_snapshot(snapshot, current_date, c, env) ==
    LET id == snapshot.SnapshotId
        age == snapshot_age(snapshot, current_date)
        lookup == CallResult(Call("describe_images", id,
                                  "block-device-mapping.snapshot-id",
                                  Len(env.lookup.Images), env.lookup.out, id))
        deleting == CallResult(Call("publish", id,
                                    "Deleting snapshot which is N days old.",
                                    age, env.notify, id))
        delete == CallResult(Call("delete_snapshot", id, "", 0, env.delete,
                                  id))
        in_use == CallResult(Call("publish", id,
                         "is in use by AMI(s) and will not be deleted.", 0,
                         env.notify, id))
    IN  IF OldEnough(age, c)
        THEN Then(lookup,
                  IF OldNotAmis(env.lookup.Images)
                  THEN Catch(Then(deleting, delete),
                             {"ClientError", "Exception"}, NoEffect)
                  ELSE in_use)
        ELSE NoEffect

\* The answers the legacy loop body can get for this snapshot.
OldResponses(snapshot, current_date, c) ==
    LET asks == OldEnough(snapshot_age(snapshot, current_date), c)
    IN  {[warn |-> "ok", lookup |-> l, delete |-> d, notify |-> p,
          metric |-> "ok"] :
            l \in Asked(ImageResponses, asks, DefaultResponse.lookup),
            d \in Asked(Outcomes, asks, "ok"),
            p \in Asked(Outcomes, asks, "ok")}

\* snapshots = ec2_client.describe_snapshots(OwnerIds=['self'])['Snapshots']
OldListSnapshots(accounts) ==
    /\ impl = "old" /\ pc = "start"
    /\ \E out \in Outcomes :
          /\ calls' = Append(calls,
                             Call("describe_snapshots", 0, "self", 0, out, 0))
          /\ IF out = "ok"
             THEN /\ snapshots' \in accounts
                  /\ pc' = "oldloop"
                  /\ UNCHANGED <<error, result>>
             ELSE /\ snapshots' = snapshots
                  /\ Propagate(out)
    /\ UNCHANGED <<impl, cfg, i, batch, j, processed, responses, chunks>>

\* for snapshot in snapshots: ...
OldProcessSnapshot ==
    /\ impl = "old" /\ pc = "oldloop"
    /\ j < Len(snapshots)
    /\ \E env \in OldResponses(snapshots[j + 1], Today, cfg) :
          LET r == legacy_snapshot(snapshots[j + 1], Today, cfg, env)
          IN  /\ calls' = calls \o r.calls
              /\ processed' = Append(processed, snapshots[j + 1].SnapshotId)
              /\ IF r.raised = "none"
                 THEN j' = j + 1 /\ UNCHANGED <<pc, error, result>>
                 ELSE j' = j /\ Propagate(r.raised)
    /\ UNCHANGED <<impl, cfg, snapshots, i, batch, responses, chunks>>

\* return {'statusCode': 200, ...}
OldReturn ==
    /\ impl = "old" /\ pc = "oldloop"
    /\ j = Len(snapshots)
    /\ Return(200, <<"Snapshot cleanup completed successfully!">>)
    /\ UNCHANGED <<impl, cfg, snapshots, i, batch, j, calls, processed,
                   responses, chunks, error>>

NextOld(accounts) ==
    \/ OldListSnapshots(accounts)
    \/ OldProcessSnapshot
    \/ OldReturn

Next ==
    \/ NextNew(Accounts(SnapshotShapes, MaxSnapshots))
    \/ NextOld(Accounts(UntaggedShapes, MaxSnapshots))

Spec == Init /\ [][Next]_vars

(* ------------------------------------------------ batching, longer lists *)

\* Snapshots one day over retention 1, untagged or exempt.
BatchShapes ==
    {[StartTime |-> Today - 2],
     [StartTime |-> Today - 2,
      Tags |-> <<[Key |-> "Name"], [Key |-> "ExemptFromDeletion"]>>]}

BatchConfigs ==
    {c \in Configs : /\ c.SNS_TOPIC_ARN # ""
                     /\ c.SNAPSHOT_RETENTION_DAYS = 1
                     /\ c.WARNING_DAYS = 1
                     /\ ~c.DRY_RUN}

InitBatch == Init /\ impl = "new" /\ cfg \in BatchConfigs

SpecBatch ==
    InitBatch /\ [][NextNew(Accounts(BatchShapes, MaxBatchSnapshots))]_vars

(* ------------------------------------------------------------ properties *)

IsNew == impl = "new"

Ended == pc \in {"done", "raised"}

\* The snapshots processed so far (SnapshotId = place in the list).
ProcessedIds == {processed[k] : k \in DOMAIN processed}

\* The calls made while snapshot id was being processed.
CallsDuring(id) == SelectSeq(calls, LAMBDA c : c.during = id)

AgeOf(id) == snapshot_age(snapshots[id], Today)

DaysOver(id) == AgeOf(id) - cfg.SNAPSHOT_RETENTION_DAYS

IsWarning(c) ==
    /\ c.op = "publish"
    /\ c.text \in {"will be deleted in N days.", "will be deleted today."}

Made(id, op) == \E k \in DOMAIN calls : calls[k].op = op /\ calls[k].sid = id

\* C1: a snapshot for which the image lookup returned at least one image is
\* never passed to delete_snapshot, in either handler, whatever its age.
C1_InUseNeverDeleted ==
    \A a, b \in DOMAIN calls :
        ~(/\ calls[a].op = "describe_images"
          /\ calls[a].out = "ok"
          /\ calls[a].n >= 1
          /\ calls[b].op = "delete_snapshot"
          /\ calls[b].sid = calls[a].sid)

\* The legacy handler found an image for an old snapshot, and went on to
\* delete another snapshot, which no image uses, in the same run.
C1_Witness ==
    /\ impl = "old" /\ pc = "done"
    /\ \E a, b \in DOMAIN calls :
          /\ calls[a].op = "describe_images" /\ calls[a].n >= 1
          /\ AgeOf(calls[a].sid) > cfg.SNAPSHOT_RETENTION_DAYS
          /\ calls[b].op = "delete_snapshot" /\ calls[b].out = "ok"

\* C2 (as claimed): a non-exempt snapshot with age_days = retention_days is
\* evaluated for deletion by process_snapshot: the image lookup is made, and
\* when no image uses it, delete_snapshot is called, 'Deleted' is published
\* and SnapshotsDeleted incremented once (dry-run off), or nothing is deleted
\* and '[DRY RUN] Would have deleted' is published (dry-run on).
C2_DeletionAtRetention ==
    IsNew =>
    \A id \in ProcessedIds :
        (~IsExempt(snapshots[id]) /\ DaysOver(id) = 0) =>
            LET cs == CallsDuring(id)
                Has(op, text, outs) ==
                    \E k \in DOMAIN cs : /\ cs[k].op = op
                                         /\ cs[k].text = text
                                         /\ cs[k].out \in outs
                lookedUp == \E k \in DOMAIN cs : cs[k].op = "describe_images"
                unreferenced ==
                    \E k \in DOMAIN cs : /\ cs[k].op = "describe_images"
                                         /\ cs[k].out = "ok"
                                         /\ cs[k].n = 0
                deleteCalled == Has("delete_snapshot", "", Outcomes)
                deleted == Has("delete_snapshot", "", {"ok"})
                increments ==
                    Len(SelectSeq(cs, LAMBDA c : /\ c.op = "put_metric_data"
                                                 /\ c.text = "SnapshotsDeleted"))
            IN  /\ lookedUp
                /\ (unreferenced /\ ~cfg.DRY_RUN) => deleteCalled
                /\ (unreferenced /\ ~cfg.DRY_RUN /\ deleted) =>
                      /\ Has("publish", "Deleted snapshot", Outcomes)
                      /\ increments = 1
                /\ (unreferenced /\ cfg.DRY_RUN) =>
                      /\ ~deleteCalled
                      /\ Has("publish",
                             "[DRY RUN] Would have deleted snapshot", Outcomes)

\* C3: process_snapshot does nothing for a snapshot with age_days <=
\* retention_days (a negative age included): no publish, no image lookup, no
\* delete, no metric.
C3_TooYoungNoEffect ==
    IsNew =>
    \A id \in ProcessedIds :
        AgeOf(id) <= cfg.SNAPSHOT_RETENTION_DAYS => CallsDuring(id) = <<>>

\* A run has processed an untagged snapshot exactly at retention and one
\* created in the future.
C3_Witness ==
    /\ IsNew /\ pc = "done" /\ result.statusCode = 200
    /\ \E a, b \in ProcessedIds :
          /\ ~IsExempt(snapshots[a]) /\ DaysOver(a) = 0
          /\ ~IsExempt(snapshots[b]) /\ AgeOf(b) < 0

\* C4: process_snapshot does nothing for a snapshot that carries the tag key
\* ExemptFromDeletion, whatever its age and its other tags.
C4_ExemptNoEffect ==
    IsNew =>
    \A id \in ProcessedIds :
        (/\ "Tags" \in DOMAIN snapshots[id]
         /\ \E t \in DOMAIN snapshots[id].Tags :
               snapshots[id].Tags[t].Key = "ExemptFromDeletion")
        => CallsDuring(id) = <<>>

\* A run has processed an exempt snapshot that is over retention and in the
\* warning window, after an untagged one of the same age that was warned.
C4_Witness ==
    /\ IsNew /\ pc = "done" /\ result.statusCode = 200
    /\ \E a, b \in ProcessedIds :
          /\ "Tags" \in DOMAIN snapshots[b]
          /\ "Tags" \notin DOMAIN snapshots[a]
          /\ AgeOf(a) = AgeOf(b)
          /\ DaysOver(b) >= 1 /\ DaysOver(b) <= cfg.WARNING_DAYS
          /\ CallsDuring(a) # <<>>

\* C5: process_snapshot makes exactly one warning publish for a non-exempt
\* snapshot with retention_days < age_days <= retention_days + warning_days,
\* and none for one with age_days > retention_days + warning_days.
C5_ExactlyOneWarning ==
    IsNew =>
    \A id \in ProcessedIds :
        ~IsExempt(snapshots[id]) =>
            LET warnings == Len(SelectSeq(CallsDuring(id), IsWarning))
            IN  /\ (DaysOver(id) >= 1 /\ DaysOver(id) <= cfg.WARNING_DAYS)
                   => warnings = 1
                /\ DaysOver(id) > cfg.WARNING_DAYS => warnings = 0

\* A run has processed a snapshot on the last day of the warning window.
C5_Witness ==
    /\ IsNew /\ Ended
    /\ \E id \in ProcessedIds :
          /\ ~IsExempt(snapshots[id])
          /\ DaysOver(id) >= 1 /\ DaysOver(id) = cfg.WARNING_DAYS
          /\ \E k \in DOMAIN calls : IsWarning(calls[k]) /\ calls[k].sid = id

\* C6 (as claimed): when lambda_handler returns 400, no collaborator call
\* has been made in the run, for every configuration, batch size <= 0
\* included.
C6_Status400NoCalls ==
    (IsNew /\ pc = "done" /\ result.statusCode = 400) => calls = <<>>

\* C7 (as claimed): every invocation of lambda_handler ends by returning a
\* result with status 200, 400 or 500; no exception leaves it, whatever
\* the collaborators answer, the metric increment of the top-level handlers
\* included.
C7_AlwaysReturnsResult ==
    (IsNew /\ Ended) =>
        pc = "done" /\ result.statusCode \in {200, 400, 500}

\* The sizes of ceil(n / size) chunks: size each, the last the remainder.
ExpectedChunks(n, size) ==
    [k \in 1 .. ((n + size - 1) \div size) |->
        IF k * size <= n THEN size ELSE n - (k - 1) * size]

\* The calls of processing the first m snapshots one after the other, without
\* batches, under the answers the services gave.
RECURSIVE SequentialCalls(_)
SequentialCalls(m) ==
    IF m = 0 THEN <<>>
    ELSE SequentialCalls(m - 1)
         \o process_snapshot(snapshots[m], Today, cfg, responses[m]).calls

BatchesComplete ==
    \/ pc = "loop" /\ ~InRange(i, Len(snapshots), cfg.BATCH_SIZE)
    \/ pc = "done" /\ result.statusCode = 200

\* C8: for BATCH_SIZE >= 1 the batches process every snapshot once, in list
\* order, in ceil(n / BATCH_SIZE) chunks of BATCH_SIZE snapshots except
\* possibly the last, and the collaborator calls are those of processing the
\* list one snapshot after the other.
C8_BatchingIsSequential ==
    (IsNew /\ cfg.BATCH_SIZE >= 1) =>
        /\ processed = [k \in 1 .. Len(processed) |-> k]
        /\ Len(processed) <= Len(snapshots)
        /\ SelectSeq(calls, LAMBDA c : c.during # 0)
              = SequentialCalls(Len(processed))
        /\ \A k \in DOMAIN chunks :
              chunks[k] = ExpectedChunks(Len(snapshots), cfg.BATCH_SIZE)[k]
        /\ BatchesComplete =>
              /\ Len(processed) = Len(snapshots)
              /\ chunks = ExpectedChunks(Len(snapshots), cfg.BATCH_SIZE)

\* Five snapshots went through batches of 2, 2 and 1, with calls made.
C8_Witness ==
    /\ IsNew /\ pc = "done" /\ result.statusCode = 200
    /\ cfg.BATCH_SIZE = 2
    /\ Len(snapshots) = 5
    /\ chunks = <<2, 2, 1>>
    /\ \E k \in DOMAIN calls : calls[k].during = 5 /\ calls[k].out # "ok"

\* C9 (as claimed): a failing publish or metric increment, of any error
\* kind, never aborts processing: the snapshots after it are processed and
\* the run returns 200.
C9_PublishAndMetricNonFatal ==
    (/\ IsNew /\ Ended
     /\ cfg.BATCH_SIZE >= 1
     /\ \E k \in DOMAIN calls :
           calls[k].op = "describe_snapshots" /\ calls[k].out = "ok"
     /\ \A k \in DOMAIN calls :
           calls[k].out # "ok" => calls[k].op \in {"publish", "put_metric_data"}
     /\ \E k \in DOMAIN calls : calls[k].out # "ok")
    => /\ pc = "done" /\ result.statusCode = 200
       /\ Len(processed) = Len(snapshots)

\* C10: in lambda_handler.py the deletion check is never reached:
\* describe_images and delete_snapshot are never called, SnapshotsDeleted and
\* SnapshotProcessingErrors never incremented, also for a snapshot one day
\* over retention.
C10_DeletionNeverEvaluated ==
    IsNew =>
    \A k \in DOMAIN calls :
        /\ calls[k].op \notin {"describe_images", "delete_snapshot"}
        /\ calls[k].text \notin {"SnapshotsDeleted", "SnapshotProcessingErrors"}

\* A run has processed an untagged snapshot one day over retention, and one
\* exactly at retention, and returned 200.
C10_Witness ==
    /\ IsNew /\ pc = "done" /\ result.statusCode = 200
    /\ \E a, b \in ProcessedIds :
          /\ ~IsExempt(snapshots[a]) /\ DaysOver(a) = 1
          /\ ~IsExempt(snapshots[b]) /\ DaysOver(b) = 0
====
